---- MODULE Spec2Model ----
(***************************************************************************)
(* Model of kitsystemyou/quiz-from-docs:                                   *)
(*   - the POST /api/quiz route handler   (src/unnamed/part_000)           *)
(*   - the QuizPage client component      (src/app/quiz/page.tsx)          *)
(*                                                                         *)
(* Strings that only matter through their length and their whitespace are  *)
(* kept run-length encoded: a string is a sequence of runs [c, n] meaning  *)
(* n copies of the character c, adjacent runs holding different characters.*)
(* That keeps MAX_LEN at the program's 1000.                               *)
(*                                                                         *)
(* The provider's content string is kept as a sequence of lexical tokens   *)
(* ("[", "]", the text {"quizzes": , "}", a word of prose, or the          *)
(* serialisation of one bracket-free JSON value); JSON.parse and the       *)
(* /\[[\s\S]*\]/ match are computed on the tokens.                         *)
(***************************************************************************)
EXTENDS Integers, Sequences, FiniteSets, TLC

VARIABLES
    \* ---- server: one invocation of POST ----
    request,      \* the body of the Request
    env,          \* process.env, the two recognised variables
    pc,           \* "start" | "awaitFetch" | "done"
    fetchCalls,   \* the outbound calls made so far, oldest first
    openaiRes,    \* how the outbound call settled, or NoOutcome
    response,     \* the Response returned, or NoResponse
    \* ---- client: the QuizPage component ----
    text, quizzes, loading, error,
    inflight,     \* number of fetch('/api/quiz') calls not yet settled
    sent,         \* the payload of the most recent fetch('/api/quiz')
    pendingReads, \* number of file.text() promises not yet settled
    lastInput,    \* the raw value the last setText was computed from
    textSetBy     \* who called setText last: "init", "edit", "load" or "clear"

svars == <<request, env, pc, fetchCalls, openaiRes, response>>
cvars == <<text, quizzes, loading, error, inflight, sent, pendingReads, lastInput, textSetBy>>
vars == <<request, env, pc, fetchCalls, openaiRes, response,
          text, quizzes, loading, error, inflight, sent, pendingReads, lastInput, textSetBy>>

----------------------------------------------------------------------------
(* Bounds of the model *)

\* longest array of candidates drawn from the full set of element kinds
MaxMixed == 2
\* longest array of candidates drawn from LongKinds
MaxItems == 6
\* most runs in a raw text input of the client
MaxRuns == 2
\* most quizzes in a response body the client receives
MaxRespItems == 6
\* most file.text() reads outstanding at once
MaxReads == 1
\* most requests outstanding at once when handleGenerate is called directly
MaxInFlight == 2

----------------------------------------------------------------------------
(* Run-length encoded strings *)

MAX_LEN == 1000

Run(c, n) == [c |-> c, n |-> n]

RECURSIVE StrLen(_)
StrLen(s) == IF s = <<>> THEN 0 ELSE Head(s).n + StrLen(Tail(s))

IsWhitespace(c) == c = " "

RECURSIVE TrimStart(_)
TrimStart(s) ==
    IF s = <<>> THEN s
    ELSE IF IsWhitespace(Head(s).c) THEN TrimStart(Tail(s))
    ELSE s

RECURSIVE TrimEnd(_)
TrimEnd(s) ==
    IF s = <<>> THEN s
    ELSE IF IsWhitespace(s[Len(s)].c) THEN TrimEnd(SubSeq(s, 1, Len(s) - 1))
    ELSE s

\* String.prototype.trim
StrTrim(s) == TrimEnd(TrimStart(s))

\* the truncation left out
StrSliceNone(s, k) == s

\* String.prototype.slice(0, k)
RECURSIVE StrSlice(_, _)
StrSlice(s, k) ==
    IF s = <<>> \/ k <= 0 THEN <<>>
    ELSE IF Head(s).n <= k
         THEN <<Head(s)>> \o StrSlice(Tail(s), k - Head(s).n)
         ELSE <<Run(Head(s).c, k)>>

\* the character at 1-based position i of s (i within the string)
RECURSIVE CharAt(_, _)
CharAt(s, i) == IF i <= Head(s).n THEN Head(s).c ELSE CharAt(Tail(s), i - Head(s).n)

----------------------------------------------------------------------------
(* JSON values as the handler sees them *)

JString(s) == [ty |-> "string", str |-> s]
JNumber(n) == [ty |-> "number", num |-> n]
JNull == [ty |-> "null"]
JUndefined == [ty |-> "undefined"]
\* a string of the request body, run-length encoded
JText(s) == [ty |-> "string", rle |-> s]
JArray(a) == [ty |-> "array", items |-> a]
JObject(f) == [ty |-> "object", fields |-> f]

\* typeof x === 'object' (null and arrays included, as in JavaScript)
TypeofObject(x) == x.ty \in {"object", "array", "null"}

\* JavaScript truthiness of a JSON value
Truthy(x) ==
    CASE x.ty = "null" -> FALSE
      [] x.ty = "number" -> x.num # 0
      [] x.ty = "undefined" -> FALSE
      [] x.ty = "string" -> IF "rle" \in DOMAIN x THEN x.rle # <<>> ELSE x.str # ""
      [] OTHER -> TRUE

\* 'k' in x, for an x that is an object or an array
HasKey(x, k) == x.ty = "object" /\ k \in DOMAIN x.fields

----------------------------------------------------------------------------
(* The provider's content string, as tokens *)

Tok(k) == [tok |-> k, val |-> JNull]
LB == Tok("[")
RB == Tok("]")
QOpen == Tok("{\"quizzes\":")
QClose == Tok("}")
Word == Tok("prose")
\* the serialisation of a JSON value that holds no bracket
ValTok(v) == [tok |-> "value", val |-> v]

ParseFail == [ok |-> FALSE, val |-> JNull, rest |-> <<>>]

\* recursive descent over the tokens: value and the elements of an array
RECURSIVE ParseValue(_), ParseElems(_)
ParseValue(ts) ==
    IF ts = <<>> THEN ParseFail
    ELSE IF Head(ts).tok = "value"
         THEN [ok |-> TRUE, val |-> Head(ts).val, rest |-> Tail(ts)]
    ELSE IF Head(ts).tok = "["
         THEN LET r == ParseElems(Tail(ts))
              IN  IF r.ok THEN [ok |-> TRUE, val |-> JArray(r.val), rest |-> r.rest]
                  ELSE ParseFail
    ELSE IF Head(ts).tok = "{\"quizzes\":"
         THEN LET r == ParseValue(Tail(ts))
              IN  IF r.ok /\ r.rest # <<>> /\ Head(r.rest).tok = "}"
                  THEN [ok |-> TRUE, val |-> JObject([quizzes |-> r.val]),
                        rest |-> Tail(r.rest)]
                  ELSE ParseFail
    ELSE ParseFail
ParseElems(ts) ==
    IF ts = <<>> THEN ParseFail
    ELSE IF Head(ts).tok = "]" THEN [ok |-> TRUE, val |-> <<>>, rest |-> Tail(ts)]
    ELSE LET r == ParseValue(ts)
         IN  IF ~r.ok THEN ParseFail
             ELSE LET r2 == ParseElems(r.rest)
                  IN  IF r2.ok
                      THEN [ok |-> TRUE, val |-> <<r.val>> \o r2.val, rest |-> r2.rest]
                      ELSE ParseFail

\* JSON.parse: ok = FALSE stands for the SyntaxError it throws
JSONParse(ts) ==
    LET r == ParseValue(ts)
    IN  IF r.ok /\ r.rest = <<>> THEN [ok |-> TRUE, val |-> r.val]
        ELSE [ok |-> FALSE, val |-> JNull]

\* content.match(/\[[\s\S]*\]/): from the first "[" to the last "]"
RegexMatch(ts) ==
    LET opens == {i \in 1..Len(ts) : ts[i].tok = "["}
        closes == {i \in 1..Len(ts) : ts[i].tok = "]"}
        first == CHOOSE i \in opens : \A j \in opens : i <= j
        last == CHOOSE i \in closes : \A j \in closes : j <= i
    IN  IF opens # {} /\ closes # {} /\ first < last
        THEN [found |-> TRUE, toks |-> SubSeq(ts, first, last)]
        ELSE [found |-> FALSE, toks |-> <<>>]

----------------------------------------------------------------------------
(* Normalisation of the parsed value *)

Null == [isNull |-> TRUE]

\* the callback with || for && between the two typeof tests
MapQAEitherString(x) ==
    IF Truthy(x) /\ TypeofObject(x) /\ HasKey(x, "question") /\ HasKey(x, "answer")
    THEN LET q == x.fields.question
             a == x.fields.answer
         IN  IF q.ty = "string" \/ a.ty = "string"
             THEN [question |-> q, answer |-> a]
             ELSE Null
    ELSE Null

\* the callback of .map: the candidate as a QA, or null
MapQA(x) ==
    IF Truthy(x) /\ TypeofObject(x) /\ HasKey(x, "question") /\ HasKey(x, "answer")
    THEN LET q == x.fields.question
             a == x.fields.answer
         IN  IF q.ty = "string" /\ a.ty = "string"
             THEN [question |-> q, answer |-> a]
             ELSE Null
    ELSE Null

\* .filter(Boolean) over the mapped candidates
RECURSIVE FilterBoolean(_)
FilterBoolean(xs) ==
    IF xs = <<>> THEN <<>>
    ELSE IF Head(xs) = Null THEN FilterBoolean(Tail(xs))
    ELSE <<Head(xs)>> \o FilterBoolean(Tail(xs))

MapFilter(items) == FilterBoolean([i \in 1..Len(items) |-> MapQA(items[i])])

\* the cap left out: the whole array
ArrSliceAll(xs, k) == xs

\* slice(-k) for slice(0, k): the last k
ArrSliceLast(xs, k) == SubSeq(xs, IF Len(xs) < k THEN 1 ELSE Len(xs) - k + 1, Len(xs))

\* Array.prototype.slice(0, k)
ArrSlice(xs, k) == SubSeq(xs, 1, IF Len(xs) < k THEN Len(xs) ELSE k)

\* the let quizzes of the handler after the if / else if
QuizzesOf(parsed) ==
    IF parsed.ty = "array" THEN MapFilter(parsed.items)
    ELSE IF Truthy(parsed) /\ TypeofObject(parsed) /\ HasKey(parsed, "quizzes")
            /\ parsed.fields.quizzes.ty = "array"
         THEN MapFilter(parsed.fields.quizzes.items)
    ELSE <<>>

----------------------------------------------------------------------------
(* The inputs of the handler *)

\* candidate elements the provider may put in the array
Good1 == JObject([question |-> JString("Q1"), answer |-> JString("A1")])
Good2 == JObject([question |-> JString("Q2"), answer |-> JString("A2")])
EmptyQ == JObject([question |-> JString(""), answer |-> JString("A3")])
NoAnswer == JObject([question |-> JString("Q5")])
NumQuestion == JObject([question |-> JNumber(7), answer |-> JString("A6")])
Extra == JObject([question |-> JString("Q7"), answer |-> JString("A7"),
                  hint |-> JString("h")])

ElemKinds == {Good1, Good2, EmptyQ, NoAnswer, NumQuestion, Extra, JNull}
LongKinds == {Good1, Good2, NoAnswer}

\* JSON.stringify of an array of candidates, and of {"quizzes": array}
ArrToks(a) == <<LB>> \o [i \in 1..Len(a) |-> ValTok(a[i])] \o <<RB>>
ObjToks(a) == <<QOpen>> \o ArrToks(a) \o <<QClose>>
Serialized(a, wrapped) == IF wrapped THEN ObjToks(a) ELSE ArrToks(a)

\* what may stand before and after the JSON in the content
Prefixes == {<<>>, <<Word>>, <<LB>>}
Suffixes == {<<>>, <<Word>>, <<RB>>}

\* contents that hold no array of candidates
OtherContents ==
    {<<>>, <<Word>>, <<ValTok(Good1)>>, <<ValTok(JNumber(0))>>,
     <<QOpen, ValTok(Good1), QClose>>, <<Word, LB, Word, RB, Word>>,
     <<RB, Word, LB>>}

StringContent(ts) == [isString |-> TRUE, toks |-> ts]
\* a content that is an object, not a string
ObjectContent == [isString |-> FALSE, toks |-> <<>>]

Present(c) == [present |-> TRUE, value |-> c]
Absent == [present |-> FALSE, value |-> ObjectContent]

\* a successful provider response whose message content is the string ts
OkContent(ts) ==
    [kind |-> "ok",
     data |-> [content |-> Present(StringContent(ts)), toolArgs |-> Absent]]

NoOutcome == [kind |-> "none"]

\* the other ways the fetch of the provider settles: it rejects, the status is
\* not 2xx, the body is not JSON, or the body holds no string content
OtherOutcomes ==
    {[kind |-> "reject", message |-> "fetch failed"]}
    \cup {[kind |-> "status", bodyText |-> b, textThrows |-> t, statusText |-> st] :
            b \in {"", "rate limited"}, t \in BOOLEAN,
            st \in {"", "Too Many Requests"}}
    \cup {[kind |-> "badjson", message |-> "Unexpected token < in JSON"]}
    \cup {OkContent(ts) : ts \in OtherContents}
    \cup {[kind |-> "ok", data |-> [content |-> Absent,
                                    toolArgs |-> Present(StringContent(ts))]] :
            ts \in {ArrToks(<<Good1, Good2>>), <<Word>>}}
    \cup {[kind |-> "ok", data |-> [content |-> Absent, toolArgs |-> Absent]],
          [kind |-> "ok", data |-> [content |-> Present(ObjectContent),
                                    toolArgs |-> Absent]]}

\* request.json(): it throws, or gives null, or a value whose .text is read
RequestTexts ==
    {<<>>, <<Run(" ", 1)>>, <<Run(" ", 1001)>>,
     <<Run(" ", 1), Run("a", 1), Run(" ", 1)>>,
     <<Run(" ", 1001), Run("a", 1001), Run(" ", 1)>>}

RequestBodies ==
    {[json |-> "throws", text |-> JUndefined], [json |-> "null", text |-> JUndefined]}
    \cup {[json |-> "value", text |-> t] :
            t \in {JUndefined, JNull, JNumber(0), JNumber(5), JArray(<<>>)}
                  \cup {JText(r) : r \in RequestTexts}}

\* one variable of process.env
Unset == [set |-> FALSE, value |-> ""]
EnvVar(v) == [set |-> TRUE, value |-> v]
EnvValues == {Unset, EnvVar(""), EnvVar("sk-key")}

----------------------------------------------------------------------------
(* The handler POST *)

NoResponse == [status |-> 0, json |-> [pending |-> TRUE]]
Json(body, status) == [status |-> status, json |-> body]

Unexpected(message) ==
    Json([error |-> "Unexpected server error", details |-> message], 500)

\* a || b on two variables of process.env
EnvOr(a, b) == IF a.set /\ a.value # "" THEN a ELSE b

ApiKey(e) == EnvOr(e.NEXT_PUBLIC_OPENAI_API_KEY, e.OPENAI_API_KEY)

\* the credential check left out
NoApiKeyNeverChecked(k) == FALSE

\* !apiKey
NoApiKey(k) == ~k.set \/ k.value = ""

\* the check without its !text half: typeof text !== 'string' alone
TextMissingTypeofOnly(t) == t.ty # "string"

\* (!text || typeof text !== 'string')
TextMissing(t) == ~Truthy(t) \/ t.ty # "string"

\* text.trim().slice(0, 1000)
Trimmed(t) == StrSlice(StrTrim(t.rle), 1000)

\* the handler up to its first await of the provider: the response it returns
\* at once, or NoResponse when it goes on to call the provider
EarlyResponse(req, e) ==
    IF req.json = "throws" THEN Unexpected("Unexpected end of JSON input")
    ELSE IF req.json = "null"
         THEN Unexpected("Cannot destructure property 'text' of null")
    ELSE IF TextMissing(req.text) THEN Json([error |-> "text is required"], 400)
    ELSE IF Trimmed(req.text) = <<>>
         THEN Json([error |-> "text must not be empty"], 400)
    ELSE IF NoApiKey(ApiKey(e))
         THEN Json([error |-> "Missing OpenAI API key in environment (set NEXT_PUBLIC_OPENAI_API_KEY or OPENAI_API_KEY)"], 500)
    ELSE NoResponse

\* content ?? tool_calls arguments ?? ''
ContentOf(d) ==
    IF d.content.present THEN d.content.value
    ELSE IF d.toolArgs.present THEN d.toolArgs.value
    ELSE StringContent(<<>>)

\* the string JSON.parse is given: an object content reads "[object Object]"
ToStringToks(c) == IF c.isString THEN c.toks ELSE <<LB, Word, RB>>

\* from "Normalize into array" to the return
Normalized(parsed, content) ==
    LET qs == QuizzesOf(parsed)
    IN  IF Len(qs) = 0
        THEN Json([error |-> "No quizzes generated", raw |-> content], 500)
        ELSE Json([quizzes |-> ArrSlice(qs, 5)], 200)

\* the try / catch around JSON.parse: the value parsed, or the early return
\* ("failed"), or the exception that leaves for the outer catch ("thrown")
ParseContent(content) ==
    LET strict == JSONParse(ToStringToks(content))
    IN  IF strict.ok THEN [outcome |-> "parsed", val |-> strict.val, message |-> ""]
        ELSE IF ~content.isString
             THEN [outcome |-> "thrown", val |-> JNull,
                   message |-> "content.match is not a function"]
        ELSE LET match == RegexMatch(content.toks)
             IN  IF match.found
                 THEN LET inner == JSONParse(match.toks)
                      IN  IF inner.ok
                          THEN [outcome |-> "parsed", val |-> inner.val, message |-> ""]
                          ELSE [outcome |-> "thrown", val |-> JNull,
                                message |-> "Unexpected token in JSON"]
                 ELSE [outcome |-> "failed", val |-> JNull, message |-> ""]

\* from the content to the return
HandleContent(content) ==
    LET p == ParseContent(content)
    IN  IF p.outcome = "parsed" THEN Normalized(p.val, content)
        ELSE IF p.outcome = "failed"
             THEN Json([error |-> "Failed to parse model output", raw |-> content], 500)
        ELSE Unexpected(p.message)

\* the handler from the settling of the fetch to its return
LateResponse(o) ==
    IF o.kind = "reject" THEN Unexpected(o.message)
    ELSE IF o.kind = "status"
         THEN LET errTxt == IF o.textThrows THEN "" ELSE o.bodyText
              IN  Json([error |-> "OpenAI API error",
                        details |-> IF errTxt # "" THEN errTxt ELSE o.statusText], 500)
    ELSE IF o.kind = "badjson" THEN Unexpected(o.message)
    ELSE HandleContent(ContentOf(o.data))

\* POST is entered: the body is read and validated, the key looked up, and
\* either a response is returned or the provider is called
POSTStart ==
    /\ pc = "start"
    /\ LET r == EarlyResponse(request, env)
       IN  IF r = NoResponse
           THEN /\ fetchCalls' = Append(fetchCalls,
                       [authorization |-> ApiKey(env).value,
                        text |-> Trimmed(request.text)])
                /\ pc' = "awaitFetch"
                /\ response' = response
           ELSE /\ response' = r
                /\ pc' = "done"
                /\ fetchCalls' = fetchCalls
    /\ UNCHANGED <<request, env, openaiRes>>
    /\ UNCHANGED cvars

\* the fetch settles and POST runs to its return
POSTResume(o) ==
    /\ pc = "awaitFetch"
    /\ openaiRes' = o
    /\ response' = LateResponse(o)
    /\ pc' = "done"
    /\ UNCHANGED <<request, env, fetchCalls>>
    /\ UNCHANGED cvars

SInit ==
    /\ request \in RequestBodies
    /\ env \in [NEXT_PUBLIC_OPENAI_API_KEY : EnvValues, OPENAI_API_KEY : EnvValues]
    /\ pc = "start"
    /\ fetchCalls = <<>>
    /\ openaiRes = NoOutcome
    /\ response = NoResponse

\* the server before any request, for the specifications of the client alone
SIdle ==
    /\ request = [json |-> "value", text |-> JUndefined]
    /\ env = [NEXT_PUBLIC_OPENAI_API_KEY |-> Unset, OPENAI_API_KEY |-> Unset]
    /\ pc = "start"
    /\ fetchCalls = <<>>
    /\ openaiRes = NoOutcome
    /\ response = NoResponse

----------------------------------------------------------------------------
(* The inputs of the client *)

RunLens == {1, 1000}
RunChars == {" ", "a"}

\* the raw strings a file or the textarea may hold: up to MaxRuns runs
TextInputs ==
    UNION {{s \in [1..k -> [c : RunChars, n : RunLens]] :
                \A i \in 1..(k - 1) : s[i].c # s[i + 1].c} : k \in 0..MaxRuns}

\* error: string | null
NullError == [set |-> FALSE, message |-> ""]
Err(m) == [set |-> TRUE, message |-> m]

\* the three messages the page words itself (in Japanese in the source)
FileReadFailedMsg == "file read failed"
EmptyTextMsg == "text is empty; type it or upload a file"
ApiErrorMsg == "API error"
UnknownErrorMsg == "unknown error"

Item(i) == [question |-> <<"Q", i>>, answer |-> <<"A", i>>]
Items(n) == [i \in 1..n |-> Item(i)]

\* how fetch('/api/quiz') and res.json() settle
ClientOutcomes ==
    {[kind |-> "reject", hasMessage |-> TRUE, message |-> "Failed to fetch"],
     [kind |-> "reject", hasMessage |-> FALSE, message |-> ""],
     [kind |-> "badjson", hasMessage |-> TRUE, message |-> "Unexpected token <"]}
    \cup {[kind |-> "error", hasError |-> h, error |-> e] :
            h \in BOOLEAN, e \in {"", "No quizzes generated"}}
    \cup {[kind |-> "ok", isArray |-> TRUE, quizzes |-> Items(n)] :
            n \in 0..MaxRespItems}
    \cup {[kind |-> "ok", isArray |-> FALSE, quizzes |-> <<>>]}

----------------------------------------------------------------------------
(* The component QuizPage *)

\* the client at rest, as useState leaves it
CInit ==
    /\ text = <<>>
    /\ quizzes = <<>>
    /\ loading = FALSE
    /\ error = NullError
    /\ inflight = 0
    /\ sent = <<>>
    /\ pendingReads = 0
    /\ lastInput = <<>>
    /\ textSetBy = "init"

\* handleFileChange up to its await: with no file it returns at once,
\* with a file the read of its text begins
handleFileChange(hasFile) ==
    /\ IF ~hasFile
       THEN pendingReads' = pendingReads
       ELSE /\ pendingReads < MaxReads
            /\ pendingReads' = pendingReads + 1
    /\ UNCHANGED <<text, quizzes, loading, error, inflight, sent, lastInput, textSetBy>>
    /\ UNCHANGED svars

\* file.text() fulfils with content: the try branch of handleFileChange
FileRead(content) ==
    /\ pendingReads > 0
    /\ pendingReads' = pendingReads - 1
    /\ text' = StrSlice(content, MAX_LEN)
    /\ lastInput' = content
    /\ textSetBy' = "load"
    /\ UNCHANGED <<quizzes, loading, error, inflight, sent>>
    /\ UNCHANGED svars

\* file.text() rejects: the catch branch of handleFileChange
FileReadFails ==
    /\ pendingReads > 0
    /\ pendingReads' = pendingReads - 1
    /\ error' = Err(FileReadFailedMsg)
    /\ UNCHANGED <<text, quizzes, loading, inflight, sent, lastInput, textSetBy>>
    /\ UNCHANGED svars

\* onChange of the textarea
EditText(value) ==
    /\ text' = StrSlice(value, MAX_LEN)
    /\ lastInput' = value
    /\ textSetBy' = "edit"
    /\ UNCHANGED <<quizzes, loading, error, inflight, sent, pendingReads>>
    /\ UNCHANGED svars

\* handleGenerate without its early return on an empty payload
handleGenerateNoEmptyCheck ==
    /\ loading' = TRUE
    /\ error' = NullError
    /\ quizzes' = <<>>
    /\ inflight' = inflight + 1
    /\ sent' = StrSlice(StrTrim(text), MAX_LEN)
    /\ UNCHANGED <<text, pendingReads, lastInput, textSetBy>>
    /\ UNCHANGED svars

\* handleGenerate up to its await
handleGenerate ==
    LET payload == StrSlice(StrTrim(text), MAX_LEN)
    IN  /\ IF payload = <<>>
           THEN /\ error' = Err(EmptyTextMsg)
                /\ UNCHANGED <<loading, quizzes, inflight, sent>>
           ELSE /\ loading' = TRUE
                /\ error' = NullError
                /\ quizzes' = <<>>
                /\ inflight' = inflight + 1
                /\ sent' = payload
        /\ UNCHANGED <<text, pendingReads, lastInput, textSetBy>>
        /\ UNCHANGED svars

\* the button disabled on empty text alone, loading forgotten
GenerateDisabledEmptyOnly == StrLen(StrTrim(text)) = 0

\* disabled={loading || text.trim().length === 0} on the Generate button
GenerateDisabled == loading \/ StrLen(StrTrim(text)) = 0

\* the Button of ../ui/button: a click runs onClick unless the button is disabled
ButtonClick(disabled, onClick) ==
    /\ ~disabled
    /\ onClick

\* a click on the Generate button
ClickGenerate == ButtonClick(GenerateDisabled, handleGenerate)

\* setLoading(false) as the last line of the try, not in a finally
GenerateResumeNoFinally(o) ==
    /\ inflight > 0
    /\ inflight' = inflight - 1
    /\ IF o.kind = "ok"
       THEN /\ quizzes' = ArrSlice(IF o.isArray THEN o.quizzes ELSE <<>>, 5)
            /\ error' = error
            /\ loading' = FALSE
       ELSE /\ error' =
                 IF o.kind = "error"
                 THEN Err(IF o.hasError /\ o.error # "" THEN o.error ELSE ApiErrorMsg)
                 ELSE Err(IF o.hasMessage THEN o.message ELSE UnknownErrorMsg)
            /\ quizzes' = quizzes
            /\ loading' = loading
    /\ UNCHANGED <<text, sent, pendingReads, lastInput, textSetBy>>
    /\ UNCHANGED svars

\* the rest of handleGenerate, once the request has settled as o
GenerateResume(o) ==
    /\ inflight > 0
    /\ inflight' = inflight - 1
    /\ IF o.kind = "ok"
       THEN /\ quizzes' = ArrSlice(IF o.isArray THEN o.quizzes ELSE <<>>, 5)
            /\ error' = error
       ELSE /\ error' =
                 IF o.kind = "error"
                 THEN Err(IF o.hasError /\ o.error # "" THEN o.error ELSE ApiErrorMsg)
                 ELSE Err(IF o.hasMessage THEN o.message ELSE UnknownErrorMsg)
            /\ quizzes' = quizzes
    /\ loading' = FALSE
    /\ UNCHANGED <<text, sent, pendingReads, lastInput, textSetBy>>
    /\ UNCHANGED svars

\* onClick of the Clear button
Clear ==
    /\ text' = <<>>
    /\ quizzes' = <<>>
    /\ error' = NullError
    /\ lastInput' = <<>>
    /\ textSetBy' = "clear"
    /\ UNCHANGED <<loading, inflight, sent, pendingReads>>
    /\ UNCHANGED svars

ClientNext ==
    \/ \E hasFile \in BOOLEAN : handleFileChange(hasFile)
    \/ \E content \in TextInputs : FileRead(content)
    \/ FileReadFails
    \/ \E value \in TextInputs : EditText(value)
    \/ ClickGenerate
    \/ \E o \in ClientOutcomes : GenerateResume(o)
    \/ Clear

\* handleGenerate called whatever the button shows
CallGenerate ==
    /\ inflight < MaxInFlight
    /\ handleGenerate

\* the outbound fetch settles, in one of the ways a provider can answer
FetchSettles ==
    /\ pc = "awaitFetch"
    /\ \/ \E o \in OtherOutcomes : POSTResume(o)
       \/ \E k \in 0..MaxMixed : \E a \in [1..k -> ElemKinds] :
            \E pre \in Prefixes, post \in Suffixes, wrapped \in BOOLEAN :
               POSTResume(OkContent(pre \o Serialized(a, wrapped) \o post))
       \/ \E k \in 0..MaxItems : \E a \in [1..k -> LongKinds] : \E wrapped \in BOOLEAN :
            POSTResume(OkContent(Serialized(a, wrapped)))

ServerNext ==
    \/ POSTStart
    \/ FetchSettles

ServerInit == SInit /\ CInit
ClientInit == SIdle /\ CInit

\* the handler alone, the page at rest
ServerSpec == ServerInit /\ [][ServerNext]_vars

\* the page alone, no request at the handler
ClientSpec == ClientInit /\ [][ClientNext]_vars

\* every request of the page settles: fetch fulfils or rejects
FairClientSpec == ClientSpec /\ WF_vars(\E o \in ClientOutcomes : GenerateResume(o))

\* the page with handleGenerate also called directly
HandlerNext == ClientNext \/ CallGenerate

HandlerSpec == ClientInit /\ [][HandlerNext]_vars

----------------------------------------------------------------------------
(* What the claims about the handler are stated with *)

Min(a, b) == IF a < b THEN a ELSE b

HasQuizzes(r) == "quizzes" \in DOMAIN r.json
HasError(r, status, message) ==
    r.status = status /\ "error" \in DOMAIN r.json /\ r.json.error = message

\* the provider answered 2xx with a JSON body; its content, and what became of it
Answered == pc = "done" /\ openaiRes.kind = "ok"
TheContent == ContentOf(openaiRes.data)
TheParse == ParseContent(TheContent)
Parsed == Answered /\ TheParse.outcome = "parsed"

\* the candidates of a parsed value: a bare array, or the array under "quizzes"
IsWrapped(v) ==
    v.ty = "object" /\ "quizzes" \in DOMAIN v.fields /\ v.fields.quizzes.ty = "array"
HoldsCandidates(v) == v.ty = "array" \/ IsWrapped(v)
Candidates(v) ==
    IF v.ty = "array" THEN v.items
    ELSE IF IsWrapped(v) THEN v.fields.quizzes.items
    ELSE <<>>

\* an object with a string question and a string answer
WellFormed(x) ==
    /\ x.ty = "object"
    /\ {"question", "answer"} \subseteq DOMAIN x.fields
    /\ x.fields.question.ty = "string"
    /\ x.fields.answer.ty = "string"
AsItem(x) == [question |-> x.fields.question, answer |-> x.fields.answer]
Valid(v) == SelectSeq(Candidates(v), WellFormed)
FirstFiveValid(v) == [i \in 1..Min(Len(Valid(v)), 5) |-> AsItem(Valid(v)[i])]

\* C1: a success response carries between 1 and 5 quizzes; more than 5 valid
\* items are cut to the first 5; no valid item gives 500 "No quizzes generated"
C1_QuizzesBetweenOneAndFive ==
    /\ response.status = 200 <=> HasQuizzes(response)
    /\ HasQuizzes(response) =>
          Len(response.json.quizzes) >= 1 /\ Len(response.json.quizzes) <= 5
    /\ Parsed /\ Len(Valid(TheParse.val)) > 5 =>
          /\ response.status = 200
          /\ Len(response.json.quizzes) = 5
          /\ \A i \in 1..5 : response.json.quizzes[i] = AsItem(Valid(TheParse.val)[i])
    /\ Parsed /\ Len(Valid(TheParse.val)) = 0 =>
          /\ HasError(response, 500, "No quizzes generated")
          /\ ~HasQuizzes(response)

C1_Witness ==
    /\ Parsed
    /\ Len(Valid(TheParse.val)) > 5
    /\ response.status = 200
    /\ Len(response.json.quizzes) = 5

\* C2: when the strict parse fails and the parse of the extracted [...] fails
\* too, or nothing is extracted, the response is 500 "Failed to parse model
\* output" with the raw content
C2_FailedToParse ==
    Answered /\ TheContent.isString =>
        LET strict == JSONParse(TheContent.toks)
            match == RegexMatch(TheContent.toks)
        IN  ~strict.ok /\ (~match.found \/ ~JSONParse(match.toks).ok) =>
                /\ HasError(response, 500, "Failed to parse model output")
                /\ response.json.raw = TheContent

\* the body of the request gives a value to read .text from
BodyRead == request.json = "value"
IsString(t) == t.ty = "string"
AllWhitespace(s) == \A i \in 1..Len(s) : s[i].c = " "

\* C3 as first stated: text absent or not a string gets 400 "text is
\* required"; any string, the empty one included, that is empty once trimmed
\* gets 400 "text must not be empty"; nothing else gets a 400
C3_Original ==
    pc # "start" /\ BodyRead =>
        IF ~IsString(request.text) THEN HasError(response, 400, "text is required")
        ELSE IF AllWhitespace(request.text.rle)
             THEN HasError(response, 400, "text must not be empty")
        ELSE response.status # 400

\* C3, amended: of a body that parses to a value other than null, a text that
\* is absent, not a string or the empty string gets 400 "text is required"; a
\* non-empty string of whitespace alone gets 400 "text must not be empty";
\* nothing else gets a 400, whatever the environment holds
C3_ValidationOrder ==
    pc # "start" =>
        IF ~BodyRead THEN response.status = 500
        ELSE IF ~IsString(request.text) \/ request.text.rle = <<>>
             THEN HasError(response, 400, "text is required")
        ELSE IF AllWhitespace(request.text.rle)
             THEN HasError(response, 400, "text must not be empty")
        ELSE response.status # 400

C3_Witness ==
    /\ pc = "done"
    /\ BodyRead /\ IsString(request.text) /\ request.text.rle = <<>>
    /\ HasError(response, 400, "text is required")

\* one of the two variables holds a non-empty key
KeySet(e) ==
    \/ e.NEXT_PUBLIC_OPENAI_API_KEY.set /\ e.NEXT_PUBLIC_OPENAI_API_KEY.value # ""
    \/ e.OPENAI_API_KEY.set /\ e.OPENAI_API_KEY.value # ""
TextValid ==
    BodyRead /\ IsString(request.text) /\ ~AllWhitespace(request.text.rle)

\* C4: the provider is called at most once, and only with a valid text and a
\* key; with neither variable set the response is the 500 of the missing key
\* and no call is made; a non-2xx answer ends in 500 "OpenAI API error" with
\* the one call made
C4_OneCallAfterChecks ==
    /\ Len(fetchCalls) <= 1
    /\ Len(fetchCalls) = 1 => TextValid /\ KeySet(env) /\ pc # "start"
    /\ pc # "start" /\ TextValid /\ ~KeySet(env) =>
          /\ fetchCalls = <<>>
          /\ response.status = 500
          /\ response.json.error = "Missing OpenAI API key in environment (set NEXT_PUBLIC_OPENAI_API_KEY or OPENAI_API_KEY)"
    /\ pc = "done" /\ openaiRes.kind = "status" =>
          /\ HasError(response, 500, "OpenAI API error")
          /\ Len(fetchCalls) = 1

C4_Witness ==
    /\ pc = "done"
    /\ openaiRes.kind = "status"
    /\ Len(fetchCalls) = 1
    /\ HasError(response, 500, "OpenAI API error")

\* C7 as first stated: every item of a success response has a non-empty
\* string question and a non-empty string answer
C7_Original ==
    HasQuizzes(response) =>
        \A i \in 1..Len(response.json.quizzes) :
            LET it == response.json.quizzes[i]
            IN  /\ it.question.ty = "string" /\ it.question.str # ""
                /\ it.answer.ty = "string" /\ it.answer.str # ""

\* C7, amended: every item of a success response has a string question and a
\* string answer, either possibly empty, and is the question and answer of a
\* candidate that is an object holding both as strings
C7_StringFields ==
    HasQuizzes(response) =>
        /\ Parsed
        /\ \A i \in 1..Len(response.json.quizzes) :
              LET it == response.json.quizzes[i]
              IN  /\ DOMAIN it = {"question", "answer"}
                  /\ it.question.ty = "string"
                  /\ it.answer.ty = "string"
                  /\ \E j \in 1..Len(Candidates(TheParse.val)) :
                        /\ WellFormed(Candidates(TheParse.val)[j])
                        /\ it = AsItem(Candidates(TheParse.val)[j])

C7_Witness ==
    /\ HasQuizzes(response)
    /\ \E i \in 1..Len(response.json.quizzes) : response.json.quizzes[i].question.str = ""
    /\ \E j \in 1..Len(Candidates(TheParse.val)) : ~WellFormed(Candidates(TheParse.val)[j])

\* C8: of a parsed bare array or {quizzes: array}, the list returned is the
\* first 5 of the well-formed candidates, in their order, fields unchanged
C8_FilterThenPrefix ==
    Parsed /\ HoldsCandidates(TheParse.val) =>
        IF FirstFiveValid(TheParse.val) = <<>>
        THEN ~HasQuizzes(response) /\ HasError(response, 500, "No quizzes generated")
        ELSE response = Json([quizzes |-> FirstFiveValid(TheParse.val)], 200)

C8_Witness ==
    /\ Parsed /\ IsWrapped(TheParse.val)
    /\ HasQuizzes(response)
    /\ Len(Candidates(TheParse.val)) > 5
    /\ \E j \in 1..5 : ~WellFormed(Candidates(TheParse.val)[j])
    /\ Len(response.json.quizzes) = 5
    /\ response.json.quizzes[1] # response.json.quizzes[2]

----------------------------------------------------------------------------
(* What the claims about the page are stated with *)

\* positions probed when two strings are compared character by character
Probes == {1, 2, 500, 999, 1000}

\* t is the first Min(StrLen(s), k) characters of s
FirstChars(t, s, k) ==
    /\ StrLen(t) = Min(StrLen(s), k)
    /\ \A i \in Probes : i <= StrLen(t) => CharAt(t, i) = CharAt(s, i)

Blank(s) == \A i \in 1..Len(s) : s[i].c = " "

\* C5: loading is true as long as the request is outstanding, whatever else
\* runs meanwhile; the step that settles it leaves loading false; and, every
\* request settling, loading always becomes false again
C5_LoadingSpansRequest ==
    /\ [](inflight > 0 => loading)
    /\ [][inflight' < inflight => ~loading']_vars
    /\ (loading ~> ~loading)

\* a request outstanding while the text it was made from has been cleared
C5_Witness ==
    /\ inflight = 1
    /\ loading
    /\ textSetBy = "clear"
    /\ sent # <<>>

\* C6: never two requests outstanding; the button is disabled while loading;
\* a click that gets through has non-blank text and issues exactly one request
C6_OneRequestInFlight ==
    /\ [](inflight <= 1)
    /\ [](loading => GenerateDisabled)
    /\ [][ClickGenerate => ~loading /\ ~Blank(text) /\ inflight' = inflight + 1]_vars
    /\ [][inflight' > inflight => inflight = 0 /\ inflight' = 1]_vars

\* the button disabled by loading alone, the text being non-blank
C6_Witness ==
    /\ inflight = 1
    /\ GenerateDisabled
    /\ ~Blank(text)

\* C9: text is never longer than MAX_LEN; Edit and Load file store the first
\* MAX_LEN characters of what they are given; truncating text again changes
\* nothing; the payload sent is no longer than MAX_LEN
C9_TextAtMostMaxLen ==
    /\ StrLen(text) <= MAX_LEN
    /\ textSetBy \in {"edit", "load"} => FirstChars(text, lastInput, MAX_LEN)
    /\ StrSlice(text, MAX_LEN) = text
    /\ StrLen(sent) <= MAX_LEN

C9_Witness ==
    /\ textSetBy = "load"
    /\ StrLen(lastInput) > MAX_LEN
    /\ StrLen(text) = MAX_LEN
    /\ inflight = 1
    /\ StrLen(sent) = MAX_LEN

\* C10: handleGenerate run on a text that is empty once trimmed sets error to
\* the empty-text message, sends nothing, and leaves loading, quizzes and
\* text as they were
C10_BlankTextSendsNothing ==
    [][handleGenerate /\ Blank(text) =>
          /\ error' = Err(EmptyTextMsg)
          /\ inflight' = inflight
          /\ sent' = sent
          /\ loading' = loading
          /\ quizzes' = quizzes
          /\ text' = text]_vars

\* the message set over a whitespace-only text, a request still outstanding
C10_Witness ==
    /\ error = Err(EmptyTextMsg)
    /\ text # <<>>
    /\ Blank(text)
    /\ loading
    /\ inflight = 1

====
